---- MODULE Spec2Model ----
(***************************************************************************)
(* fnaop: the `Aspect` attribute macro (src/src/lib.rs).                   *)
(*                                                                         *)
(* Two layers are modelled.                                                *)
(*   - Build time: `Aspect(args, input)` as a pure operator over the       *)
(*     attribute arguments and the decorated function (syn 1.x data        *)
(*     model: AttributeArgs, ItemFn), yielding the emitted function or a   *)
(*     panic.                                                              *)
(*   - Run time: an interpreter of the emitted function body, statement    *)
(*     by statement, recording hook calls, the body's effects and the      *)
(*     returned value.                                                     *)
(* Option<T> is a sequence of length <= 1: <<>> is None, <<x>> is Some(x). *)
(***************************************************************************)
EXTENDS Integers, Sequences, FiniteSets, TLC

\* ---------------------------------------------------------------- bounds

\* attribute arguments per #[Aspect(...)]
MaxArgs == 2
\* parameters per decorated function, build-time specifications
MaxParams == 2
\* parameters per decorated function, run-time specification
MaxRunParams == 1
\* statements per original function body
MaxStmts == 2
\* argument values passed at a call are 1..MaxVal
MaxVal == 2

SeqsUpTo(S, n) == UNION {[1..m -> S] : m \in 0..n}

\* ---------------------------------------------------------------- attribute arguments

\* A string literal's content, as the token sequence syn::parse_str sees.
BeforeFnStr == <<"before_fn">>
AfterFnStr == <<"after", "::", "after_fn">>
MalformedStr == <<"after", "::">>

LitStrs == {BeforeFnStr, AfterFnStr, MalformedStr}

IdentTokens == {"before_fn", "after_fn", "before", "after"}

\* One NestedMeta of the attribute's argument list.
NameValue(name, toks) == [meta |-> "NameValue", name |-> name, lit |-> "Str", value |-> toks]

\* `name = 42`: a name-value pair whose literal is not a string.
NameValueInt(name) == [meta |-> "NameValue", name |-> name, lit |-> "Int", value |-> <<>>]

\* `name`: a bare path, no value.
MetaPath(name) == [meta |-> "Path", name |-> name, lit |-> "None", value |-> <<>>]

OptionNames == {"before", "after", "other"}

AttrItems ==
    {NameValue(n, s) : n \in OptionNames, s \in LitStrs}
        \cup {MetaPath("before"), NameValueInt("after")}

\* syn::parse_str::<syn::Path>: identifiers separated by `::`.
RECURSIVE PathSegments(_, _)
PathSegments(toks, i) ==
    IF i > Len(toks) THEN <<>>
    ELSE IF i % 2 = 1 THEN <<toks[i]>> \o PathSegments(toks, i + 1)
    ELSE PathSegments(toks, i + 1)

IsPath(toks) ==
    /\ Len(toks) % 2 = 1
    /\ \A i \in 1..Len(toks) :
          IF i % 2 = 1 THEN toks[i] \in IdentTokens ELSE toks[i] = "::"

\* Result<syn::Path>: <<>> is Err, <<segments>> is Ok.
ParsePath(toks) == IF IsPath(toks) THEN <<PathSegments(toks, 1)>> ELSE <<>>

\* ---------------------------------------------------------------- the decorated function

ParamIdents == <<"x", "y", "z", "w">>

Receiver == [kind |-> "Receiver", pat |-> "None", by_mut |-> FALSE,
             ty |-> [variant |-> "None", mutability |-> FALSE]]

Typed(pat, by_mut, variant, mutability) ==
    [kind |-> "Typed", pat |-> pat, by_mut |-> by_mut,
     ty |-> [variant |-> variant, mutability |-> mutability]]

\* self | (a, b): T | x: T | x: &T
SigShapes ==
    {Receiver,
     Typed("Tuple", FALSE, "Path", FALSE),
     Typed("Ident", FALSE, "Path", FALSE),
     Typed("Ident", FALSE, "Reference", FALSE)}

\* ... | mut x: T | x: &mut T
RunShapes ==
    SigShapes \cup {Typed("Ident", TRUE, "Path", FALSE),
                    Typed("Ident", FALSE, "Reference", TRUE)}

\* The i-th parameter of shape s; a pattern other than an identifier binds no
\* single name.
FnArg(s, i) ==
    [kind |-> s.kind, pat |-> s.pat, by_mut |-> s.by_mut, ty |-> s.ty,
     ident |-> IF s.kind = "Typed" /\ s.pat = "Ident" THEN ParamIdents[i] ELSE "_"]

Inputs(shapes) == [i \in 1..Len(shapes) |-> FnArg(shapes[i], i)]

Visibilities == {"Public", "Crate", "Restricted", "Inherited"}

\* syn::Generics: the `<...>` parameters and the where clause.
GenericsSet ==
    {[params |-> <<>>, where_clause |-> <<>>],
     [params |-> <<"T">>, where_clause |-> <<>>],
     [params |-> <<"T">>, where_clause |-> <<"T: Clone">>]}

\* Statements of an original body: an observable effect, `x = x + 1` (or
\* `*x += 1` through a `&mut`), an early `return`.
Effect == [op |-> "effect", target |-> "_"]
Return == [op |-> "return", target |-> "_"]
Assign(x) == [op |-> "assign", target |-> x]

IsMutable(a) ==
    /\ a.kind = "Typed"
    /\ a.pat = "Ident"
    /\ \/ a.by_mut /\ a.ty.variant # "Reference"
       \/ a.ty.variant = "Reference" /\ a.ty.mutability

\* The statements a body over these parameters may hold and still compile.
StmtsFor(inputs) ==
    {Effect, Return}
        \cup {Assign(inputs[i].ident) : i \in {j \in 1..Len(inputs) : IsMutable(inputs[j])}}

ItemFn(vis, generics, inputs, output, block) ==
    [vis |-> vis, ident |-> "f", generics |-> generics, inputs |-> inputs,
     output |-> output, block |-> block]

\* tests/integration_tests.rs: #[Aspect(before = "before_fn", after = "after_fn")]
\* pub fn say_hello(x: i64) { println!(...) }
SayHello ==
    [args |-> <<NameValue("before", BeforeFnStr), NameValue("after", <<"after_fn">>)>>,
     input |-> ItemFn("Public", [params |-> <<>>, where_clause |-> <<>>],
                      Inputs(<<Typed("Ident", FALSE, "Path", FALSE)>>), "Default",
                      <<Effect>>)]

\* ---------------------------------------------------------------- Aspect, build time

Ok(x) == [status |-> "ok", msg |-> "", val |-> <<x>>]
Panic(msg) == [status |-> "panic", msg |-> msg, val |-> <<>>]

\* ForwardArg with every parameter forwarded as `&x`.
ForwardArgAlwaysRef(a) == [form |-> "RefIdent", ident |-> a.ident]

\* One forwarding expression: `x` for a parameter declared with a reference
\* type, `&x` otherwise.
ForwardArg(a) ==
    IF a.ty.variant = "Reference"
    THEN [form |-> "Ident", ident |-> a.ident]
    ELSE [form |-> "RefIdent", ident |-> a.ident]

\* fn_inputs.iter().map(...).collect(): panics at the first parameter that is
\* a receiver or is bound by a pattern other than an identifier.
RECURSIVE FnArgsFrom(_, _, _)
FnArgsFrom(inputs, i, acc) ==
    IF i > Len(inputs) THEN Ok(acc)
    ELSE IF inputs[i].kind = "Receiver" THEN Panic("Expected a typed pattern, not self")
    ELSE IF inputs[i].pat # "Ident" THEN Panic("Expected an identifier pattern")
    ELSE FnArgsFrom(inputs, i + 1, Append(acc, ForwardArg(inputs[i])))

FnArgs(inputs) == FnArgsFrom(inputs, 1, <<>>)

\* ParseArg with `if let Ok(path) = parse_str(..)` in place of unwrap().
ParseArgLenient(arg, cfg) ==
    IF arg.meta = "NameValue" /\ arg.lit = "Str"
    THEN IF arg.name = "before"
         THEN Ok([before_fn |-> ParsePath(arg.value), after_fn |-> cfg.after_fn])
         ELSE IF arg.name = "after"
         THEN Ok([before_fn |-> cfg.before_fn, after_fn |-> ParsePath(arg.value)])
         ELSE Ok(cfg)
    ELSE Ok(cfg)

\* ParseArg keeping the first value of a slot (get_or_insert).
ParseArgFirstWins(arg, cfg) ==
    IF arg.meta = "NameValue" /\ arg.lit = "Str"
    THEN IF arg.name = "before"
         THEN IF ParsePath(arg.value) = <<>> THEN Panic("unwrap")
              ELSE Ok([before_fn |-> IF cfg.before_fn = <<>> THEN ParsePath(arg.value)
                                     ELSE cfg.before_fn,
                       after_fn |-> cfg.after_fn])
         ELSE IF arg.name = "after"
         THEN IF ParsePath(arg.value) = <<>> THEN Panic("unwrap")
              ELSE Ok([before_fn |-> cfg.before_fn,
                       after_fn |-> IF cfg.after_fn = <<>> THEN ParsePath(arg.value)
                                    ELSE cfg.after_fn])
         ELSE Ok(cfg)
    ELSE Ok(cfg)

\* One iteration of `for arg in args`, on the slots (before_fn, after_fn).
ParseArg(arg, cfg) ==
    IF arg.meta = "NameValue" /\ arg.lit = "Str"
    THEN IF arg.name = "before"
         THEN IF ParsePath(arg.value) = <<>> THEN Panic("unwrap")
              ELSE Ok([before_fn |-> ParsePath(arg.value), after_fn |-> cfg.after_fn])
         ELSE IF arg.name = "after"
         THEN IF ParsePath(arg.value) = <<>> THEN Panic("unwrap")
              ELSE Ok([before_fn |-> cfg.before_fn, after_fn |-> ParsePath(arg.value)])
         ELSE Ok(cfg)
    ELSE Ok(cfg)

RECURSIVE ParseArgsFrom(_, _, _)
ParseArgsFrom(args, i, cfg) ==
    IF i > Len(args) THEN Ok(cfg)
    ELSE LET r == ParseArg(args[i], cfg)
         IN IF r.status = "panic" THEN r ELSE ParseArgsFrom(args, i + 1, r.val[1])

ParseArgs(args) == ParseArgsFrom(args, 1, [before_fn |-> <<>>, after_fn |-> <<>>])

\* HookCall with an absent slot called as a no-op instead of elided.
HookCallNoop(slot, fn_args) ==
    IF slot # <<>> THEN <<[op |-> "Call", path |-> slot[1], args |-> fn_args]>>
    ELSE <<[op |-> "Call", path |-> <<"noop">>, args |-> <<>>]>>

\* `#hook(#(#fn_args),*);` when the slot is Some, nothing otherwise.
HookCall(slot, fn_args) ==
    IF slot # <<>> THEN <<[op |-> "Call", path |-> slot[1], args |-> fn_args]>> ELSE <<>>

\* Vis with a restricted visibility kept public.
VisRestrictedPublic(vis) == IF vis \in {"Public", "Restricted"} THEN "pub" ELSE "pub(crate)"

Vis(vis) == IF vis = "Public" THEN "pub" ELSE "pub(crate)"

\* `#fn_generics`: quote prints a syn::Generics as its `<...>` parameter list
\* only; the where clause is a separate field that nothing interpolates.
GenericsTokens(generics) == [params |-> generics.params, where_clause |-> <<>>]

Stmt(op) == <<[op |-> op, path |-> <<>>, args |-> <<>>]>>

\* EmitBody with the unit template for every return type.
EmitBodyUnitTemplate(output, before_call, after_call) ==
    before_call \o Stmt("Block") \o after_call

\* The body of the emitted function, by the original's return type.
EmitBody(output, before_call, after_call) ==
    IF output = "Default"
    THEN before_call \o Stmt("Block") \o after_call
    ELSE before_call \o Stmt("LetResult") \o after_call \o Stmt("Result")

Emit(input, cfg, fn_args) ==
    [vis |-> Vis(input.vis), ident |-> input.ident,
     generics |-> GenericsTokens(input.generics), inputs |-> input.inputs,
     output |-> input.output, block |-> input.block,
     body |-> EmitBody(input.output, HookCall(cfg.before_fn, fn_args),
                       HookCall(cfg.after_fn, fn_args))]

Aspect(args, input) ==
    LET a == FnArgs(input.inputs)
    IN IF a.status = "panic" THEN a
       ELSE LET c == ParseArgs(args)
            IN IF c.status = "panic" THEN c
               ELSE Ok(Emit(input, c.val[1], a.val[1]))

\* ---------------------------------------------------------------- state

VARIABLES unit, emitted, pc, ip, bp, passed, env, trace, result, ret

vars == <<unit, emitted, pc, ip, bp, passed, env, trace, result, ret>>

rt == <<pc, ip, bp, passed, env, trace, result, ret>>

InitRuntime ==
    /\ pc = "idle"
    /\ ip = 0
    /\ bp = 0
    /\ passed = <<>>
    /\ env = <<>>
    /\ trace = <<>>
    /\ result = <<>>
    /\ ret = <<>>

\* The compiler expands the next attributed function of the compilation unit;
\* a panic is that function's diagnostic and the others are still expanded.
Expand ==
    /\ Len(emitted) < Len(unit)
    /\ emitted' = Append(emitted, Aspect(unit[Len(emitted) + 1].args,
                                         unit[Len(emitted) + 1].input))
    /\ UNCHANGED <<unit, rt>>

\* ---------------------------------------------------------------- the emitted function, run time

\* The function a caller of the crate's test suite invokes: the first of the unit.
Callee == emitted[1].val[1]

Event(ev, path, args, e) == [ev |-> ev, path |-> path, args |-> args, env |-> e]

UnitValue == [kind |-> "unit", env |-> <<>>]
\* The value of the body's trailing expression / of an early `return`, which
\* may depend on every parameter's current value.
TailValue(output, e) == IF output = "Default" THEN UnitValue ELSE [kind |-> "tail", env |-> e]
EarlyValue(output, e) == IF output = "Default" THEN UnitValue ELSE [kind |-> "early", env |-> e]

Pos(inputs, ident) == CHOOSE i \in 1..Len(inputs) : inputs[i].ident = ident

\* Layers of reference of the binding itself.
Refs(a) == IF a.ty.variant = "Reference" THEN 1 ELSE 0

\* EvalArg on a copy of the argument taken at entry.
EvalArgAtEntry(inputs, e, arg) ==
    LET i == Pos(inputs, arg.ident)
    IN [refs |-> Refs(inputs[i]) + (IF arg.form = "RefIdent" THEN 1 ELSE 0),
        val |-> passed[i]]

\* What a hook receives for one forwarding expression: the parameter's
\* current value, behind Refs layers of reference, one more for `&x`.
EvalArg(inputs, e, arg) ==
    LET i == Pos(inputs, arg.ident)
    IN [refs |-> Refs(inputs[i]) + (IF arg.form = "RefIdent" THEN 1 ELSE 0),
        val |-> e[i]]

EvalArgs(inputs, e, args) == [k \in 1..Len(args) |-> EvalArg(inputs, e, args[k])]

\* A call of the emitted function with one value per parameter.
Call ==
    /\ pc = "idle"
    /\ Len(emitted) = Len(unit)
    /\ emitted[1].status = "ok"
    /\ \E vals \in [1..Len(Callee.inputs) -> 1..MaxVal] :
          /\ passed' = vals
          /\ env' = vals
    /\ pc' = "running"
    /\ ip' = 1
    /\ UNCHANGED <<unit, emitted, bp, trace, result, ret>>

Running == pc = "running" /\ ip \in 1..Len(Callee.body)

InBody == Running /\ Callee.body[ip].op \in {"Block", "LetResult"} /\ bp >= 1

\* `#before(...);` or `#after(...);`
RunHook ==
    /\ Running
    /\ Callee.body[ip].op = "Call"
    /\ trace' = Append(trace, Event("hook", Callee.body[ip].path,
                                    EvalArgs(Callee.inputs, env, Callee.body[ip].args), <<>>))
    /\ ip' = ip + 1
    /\ UNCHANGED <<unit, emitted, pc, bp, passed, env, result, ret>>

\* Control enters `#fn_block`, inline or as the closure's body.
EnterBody ==
    /\ Running
    /\ Callee.body[ip].op \in {"Block", "LetResult"}
    /\ bp = 0
    /\ bp' = 1
    /\ trace' = Append(trace, Event("begin", <<>>, <<>>, <<>>))
    /\ UNCHANGED <<unit, emitted, pc, ip, passed, env, result, ret>>

BodyEffect ==
    /\ InBody
    /\ bp <= Len(Callee.block)
    /\ Callee.block[bp].op = "effect"
    /\ trace' = Append(trace, Event("effect", <<>>, <<>>, env))
    /\ bp' = bp + 1
    /\ UNCHANGED <<unit, emitted, pc, ip, passed, env, result, ret>>

BodyAssign ==
    /\ InBody
    /\ bp <= Len(Callee.block)
    /\ Callee.block[bp].op = "assign"
    /\ LET i == Pos(Callee.inputs, Callee.block[bp].target)
       IN env' = [env EXCEPT ![i] = env[i] + 1]
    /\ bp' = bp + 1
    /\ UNCHANGED <<unit, emitted, pc, ip, passed, trace, result, ret>>

\* `return` in the original body: inside the closure it ends the closure,
\* inline it ends the emitted function.
BodyReturn ==
    /\ InBody
    /\ bp <= Len(Callee.block)
    /\ Callee.block[bp].op = "return"
    /\ trace' = Append(trace, Event("end", <<>>, <<>>, <<>>))
    /\ bp' = 0
    /\ \/ /\ Callee.body[ip].op = "LetResult"
          /\ result' = <<EarlyValue(Callee.output, env)>>
          /\ ip' = ip + 1
          /\ UNCHANGED <<pc, ret>>
       \/ /\ Callee.body[ip].op = "Block"
          /\ ret' = <<EarlyValue(Callee.output, env)>>
          /\ pc' = "returned"
          /\ UNCHANGED <<ip, result>>
    /\ UNCHANGED <<unit, emitted, passed, env>>

\* The original body runs off its end.
BodyEnd ==
    /\ InBody
    /\ bp = Len(Callee.block) + 1
    /\ trace' = Append(trace, Event("end", <<>>, <<>>, <<>>))
    /\ bp' = 0
    /\ ip' = ip + 1
    /\ result' = IF Callee.body[ip].op = "LetResult"
                 THEN <<TailValue(Callee.output, env)>> ELSE result
    /\ UNCHANGED <<unit, emitted, pc, passed, env, ret>>

\* The trailing `result` of the non-unit template.
ResultStmt ==
    /\ Running
    /\ Callee.body[ip].op = "Result"
    /\ ret' = result
    /\ pc' = "returned"
    /\ UNCHANGED <<unit, emitted, ip, bp, passed, env, trace, result>>

\* The unit template runs off its end.
FallOff ==
    /\ pc = "running"
    /\ ip = Len(Callee.body) + 1
    /\ ret' = <<UnitValue>>
    /\ pc' = "returned"
    /\ UNCHANGED <<unit, emitted, ip, bp, passed, env, trace, result>>

\* ---------------------------------------------------------------- the untransformed function

\* The original function run on the same values: its effects and its value.
RECURSIVE OrigFrom(_, _, _, _)
OrigFrom(input, i, e, effects) ==
    IF i > Len(input.block)
    THEN [effects |-> effects, ret |-> TailValue(input.output, e)]
    ELSE IF input.block[i].op = "return"
    THEN [effects |-> effects, ret |-> EarlyValue(input.output, e)]
    ELSE IF input.block[i].op = "effect"
    THEN OrigFrom(input, i + 1, e, Append(effects, Event("effect", <<>>, <<>>, e)))
    ELSE LET k == Pos(input.inputs, input.block[i].target)
         IN OrigFrom(input, i + 1, [e EXCEPT ![k] = e[k] + 1], effects)

Orig(input, vals) == OrigFrom(input, 1, vals, <<>>)

\* ---------------------------------------------------------------- specifications

NoGenerics == [params |-> <<>>, where_clause |-> <<>>]

Before == NameValue("before", BeforeFnStr)
After == NameValue("after", AfterFnStr)

\* The hook configurations of the test suite and the ones with a slot absent.
RunArgLists == {<<>>, <<Before>>, <<After>>, <<Before, After>>, <<NameValue("other", BeforeFnStr)>>}

Outputs == {"Default", "Type"}

\* Run time: one attributed function, expanded and then called.
Init ==
    /\ \E a \in RunArgLists, shapes \in SeqsUpTo(RunShapes, MaxRunParams), out \in Outputs :
          \E block \in SeqsUpTo(StmtsFor(Inputs(shapes)), MaxStmts) :
             unit = <<[args |-> a,
                       input |-> ItemFn("Public", NoGenerics, Inputs(shapes), out, block)]>>
    /\ emitted = <<>>
    /\ InitRuntime

Next ==
    \/ Expand
    \/ Call
    \/ RunHook
    \/ EnterBody
    \/ BodyEffect
    \/ BodyAssign
    \/ BodyReturn
    \/ BodyEnd
    \/ ResultStmt
    \/ FallOff

Spec == Init /\ [][Next]_vars

\* Build time, arguments and parameters: any attributed function, followed in
\* its compilation unit by the test suite's say_hello.
InitExpand ==
    /\ \E a \in SeqsUpTo(AttrItems, MaxArgs), shapes \in SeqsUpTo(SigShapes, MaxParams),
          out \in Outputs :
          unit = <<[args |-> a,
                    input |-> ItemFn("Inherited", NoGenerics, Inputs(shapes), out, <<Effect>>)],
                   SayHello>>
    /\ emitted = <<>>
    /\ InitRuntime

NextExpand == Expand

SpecExpand == InitExpand /\ [][NextExpand]_vars

\* Build time, signature: visibility, generics, parameters and return type.
InitSig ==
    /\ \E a \in RunArgLists, shapes \in SeqsUpTo(SigShapes, MaxParams), out \in Outputs,
          vis \in Visibilities, g \in GenericsSet :
          unit = <<[args |-> a, input |-> ItemFn(vis, g, Inputs(shapes), out, <<Effect>>)]>>
    /\ emitted = <<>>
    /\ InitRuntime

NextSig == Expand

SpecSig == InitSig /\ [][NextSig]_vars

\* ---------------------------------------------------------------- vocabulary of the properties

Fn == unit[1]

Expanded == Len(emitted) >= 1

Returned == pc = "returned"

MaxOf(S) == CHOOSE x \in S : \A y \in S : y <= x

\* Positions of the `name = "string"` pairs carrying this name.
Pairs(args, name) ==
    {i \in 1..Len(args) :
        args[i].meta = "NameValue" /\ args[i].lit = "Str" /\ args[i].name = name}

Configured(args, name) == Pairs(args, name) # {}

\* The string of the last pair carrying this name.
LastString(args, name) == args[MaxOf(Pairs(args, name))].value

MalformedHook(args) ==
    \E i \in Pairs(args, "before") \cup Pairs(args, "after") : ~IsPath(args[i].value)

HasReceiver(inputs) == \E i \in 1..Len(inputs) : inputs[i].kind = "Receiver"

HasPattern(inputs) ==
    \E i \in 1..Len(inputs) : inputs[i].kind = "Typed" /\ inputs[i].pat # "Ident"

Accepted(f) ==
    ~MalformedHook(f.args) /\ ~HasReceiver(f.input.inputs) /\ ~HasPattern(f.input.inputs)

HookEvents == {i \in 1..Len(trace) : trace[i].ev = "hook"}
Begins == {i \in 1..Len(trace) : trace[i].ev = "begin"}
Ends == {i \in 1..Len(trace) : trace[i].ev = "end"}

HooksBeforeBody == {i \in HookEvents : \A b \in Begins : i < b}
HooksAfterBody == {i \in HookEvents : \E e \in Ends : e < i}

\* What a caller can observe of a call: the effects and hook calls, in order.
RECURSIVE Observable(_)
Observable(t) ==
    IF t = <<>> THEN <<>>
    ELSE IF Head(t).ev \in {"begin", "end"} THEN Observable(Tail(t))
    ELSE <<Head(t)>> \o Observable(Tail(t))

\* Times the body adds one to this parameter before it completes.
RECURSIVE Reassigned(_, _, _)
Reassigned(block, i, ident) ==
    IF i > Len(block) \/ block[i].op = "return" THEN 0
    ELSE (IF block[i].op = "assign" /\ block[i].target = ident THEN 1 ELSE 0)
         + Reassigned(block, i + 1, ident)

CallsOf(item) == {k \in 1..Len(item.body) : item.body[k].op = "Call"}
BodyAt(item) == CHOOSE k \in 1..Len(item.body) : item.body[k].op \in {"Block", "LetResult"}

\* The slot an emitted function was built with, read off its hook calls.
SlotBefore(item) ==
    IF \E k \in CallsOf(item) : k < BodyAt(item)
    THEN <<item.body[CHOOSE k \in CallsOf(item) : k < BodyAt(item)].path>> ELSE <<>>
SlotAfter(item) ==
    IF \E k \in CallsOf(item) : k > BodyAt(item)
    THEN <<item.body[CHOOSE k \in CallsOf(item) : k > BodyAt(item)].path>> ELSE <<>>

\* ---------------------------------------------------------------- C1

\* C1 (call order): when a call of the transformed function has returned, a
\* configured `before` hook has run before the original body began and a
\* configured `after` hook has run after the original body completed, for the
\* unit and the non-unit shape, whether the body ran off its end or returned
\* early.
CallOrder ==
    Returned =>
        /\ Configured(Fn.args, "before") =>
              \E i \in HooksBeforeBody : <<trace[i].path>> = ParsePath(LastString(Fn.args, "before"))
        /\ Configured(Fn.args, "after") =>
              \E i \in HooksAfterBody : <<trace[i].path>> = ParsePath(LastString(Fn.args, "after"))

\* ---------------------------------------------------------------- C2

\* C2 (value preservation): a transformed function with a non-unit return
\* type returns the value its original body produces for the same arguments,
\* early `return` included, whatever hooks are configured.
ValuePreservation ==
    (Returned /\ Fn.input.output = "Type") => ret = <<Orig(Fn.input, passed).ret>>

ValuePreservationWitness ==
    /\ Returned
    /\ Fn.input.output = "Type"
    /\ HooksAfterBody # {}
    /\ ret # <<>>
    /\ ret[1].kind = "early"

\* ---------------------------------------------------------------- C3

\* C3 (argument forwarding, as stated): every hook call, before or after the
\* body, observes at each position the value that was passed in, whatever the
\* body did with the parameter.
ArgumentForwardingEquivalence ==
    \A i \in HookEvents :
        /\ Len(trace[i].args) = Len(passed)
        /\ \A k \in 1..Len(passed) : trace[i].args[k].val = passed[k]

\* C3 (argument forwarding, amended): the `before` hook observes at each
\* position the value passed in; the `after` hook observes the value the
\* parameter holds when the original body has completed, which is the value
\* passed in exactly when the body has not reassigned that parameter.
ForwardingObservesCurrentValue ==
    \A i \in HookEvents :
        /\ Len(trace[i].args) = Len(passed)
        /\ \A k \in 1..Len(passed) :
              trace[i].args[k].val =
                  IF i \in HooksAfterBody
                  THEN passed[k] + Reassigned(Fn.input.block, 1, Fn.input.inputs[k].ident)
                  ELSE passed[k]

ForwardingWitness ==
    /\ Returned
    /\ HooksBeforeBody # {}
    /\ \E i \in HooksAfterBody : \E k \in 1..Len(passed) : trace[i].args[k].val # passed[k]

\* ---------------------------------------------------------------- C4

\* C4 (forwarding sequence): for a parameter list of identifier-bound typed
\* parameters, every emitted hook call carries one expression per parameter in
\* declaration order, the bare identifier for a reference type and a reference
\* to the identifier otherwise, and the before and after calls carry the same
\* sequence.
ForwardingSequence ==
    (Expanded /\ emitted[1].status = "ok") =>
        LET item == emitted[1].val[1]
            inputs == Fn.input.inputs
        IN /\ \A c \in CallsOf(item) :
                 /\ Len(item.body[c].args) = Len(inputs)
                 /\ \A k \in 1..Len(inputs) :
                       /\ item.body[c].args[k].ident = inputs[k].ident
                       /\ item.body[c].args[k].form = "Ident"
                              <=> inputs[k].ty.variant = "Reference"
                       /\ item.body[c].args[k].form = "RefIdent"
                              <=> inputs[k].ty.variant # "Reference"
           /\ \A c, d \in CallsOf(item) : item.body[c].args = item.body[d].args

ForwardingSequenceWitness ==
    /\ Expanded
    /\ emitted[1].status = "ok"
    /\ Cardinality(CallsOf(emitted[1].val[1])) = 2
    /\ Len(Fn.input.inputs) = 2
    /\ Fn.input.inputs[1].ty.variant = "Path"
    /\ Fn.input.inputs[2].ty.variant = "Reference"

\* ---------------------------------------------------------------- C5

\* C5 (hook calls per slot): one call of the transformed function makes
\* exactly as many hook calls as there are configured slots; with only `after`
\* configured it makes exactly one, after the body, and none before it.
HookCallCount ==
    Returned =>
        /\ Cardinality(HookEvents) =
              (IF Configured(Fn.args, "before") THEN 1 ELSE 0)
                  + (IF Configured(Fn.args, "after") THEN 1 ELSE 0)
        /\ (Configured(Fn.args, "after") /\ ~Configured(Fn.args, "before")) =>
              /\ Cardinality(HooksAfterBody) = 1
              /\ HooksBeforeBody = {}

\* ---------------------------------------------------------------- C6

NoHooks(args) == ~Configured(args, "before") /\ ~Configured(args, "after")

SameBehaviour ==
    Returned =>
        /\ Observable(trace) = Orig(Fn.input, passed).effects
        /\ ret = <<Orig(Fn.input, passed).ret>>

\* C6 (no-hooks identity, as stated): for any function with no hook
\* configured the transformation succeeds and a call behaves as a call of the
\* untransformed function.
NoHooksIdentity ==
    (Expanded /\ NoHooks(Fn.args)) => (emitted[1].status = "ok" /\ SameBehaviour)

\* C6 (no-hooks identity, amended): for any function with no hook configured
\* whose parameters are all identifier-bound typed parameters, the
\* transformation succeeds and a call performs the effects and returns the
\* value of the untransformed function.
NoHooksIdentityOfAccepted ==
    (Expanded /\ NoHooks(Fn.args)
        /\ ~HasReceiver(Fn.input.inputs) /\ ~HasPattern(Fn.input.inputs))
    => (emitted[1].status = "ok" /\ SameBehaviour)

NoHooksIdentityWitness ==
    /\ Returned
    /\ NoHooks(Fn.args)
    /\ Fn.args # <<>>
    /\ Fn.input.output = "Type"
    /\ Observable(trace) # <<>>

\* ---------------------------------------------------------------- C7

\* C7 (failure): a function whose `before`/`after` string does not parse as a
\* path, or with a receiver, or with a parameter bound by a pattern, yields a
\* panic and no emitted function, whatever hooks it configures; the function
\* expanded after it is emitted all the same.
FailureIsTotalAndLocal ==
    /\ \A i \in 1..Len(emitted) :
          ~Accepted(unit[i]) => (emitted[i].status = "panic" /\ emitted[i].val = <<>>)
    /\ Len(emitted) = 2 =>
          /\ emitted[2].status = "ok"
          /\ emitted[2].val # <<>>
          /\ emitted[2].val[1].ident = unit[2].input.ident

FailureWitness ==
    /\ Len(emitted) = 2
    /\ emitted[1].status = "panic"
    /\ MalformedHook(Fn.args)
    /\ ~HasReceiver(Fn.input.inputs)
    /\ ~HasPattern(Fn.input.inputs)
    /\ emitted[2].status = "ok"

\* ---------------------------------------------------------------- C8

\* C8 (signature): the emitted function has the name, the generics, the
\* parameter list and the return type of the original.
SameSignature ==
    (Expanded /\ emitted[1].status = "ok") =>
        LET item == emitted[1].val[1]
        IN /\ item.ident = Fn.input.ident
           /\ item.generics = Fn.input.generics
           /\ item.inputs = Fn.input.inputs
           /\ item.output = Fn.input.output

\* ---------------------------------------------------------------- C9

\* C9 (visibility): the emitted function is `pub` exactly when the original
\* was declared `pub`, and `pub(crate)` for every other original visibility.
VisibilityNormalization ==
    (Expanded /\ emitted[1].status = "ok") =>
        LET item == emitted[1].val[1]
        IN /\ item.vis = "pub" <=> Fn.input.vis = "Public"
           /\ Fn.input.vis # "Public" => item.vis = "pub(crate)"

VisibilityWitness ==
    /\ Expanded
    /\ emitted[1].status = "ok"
    /\ Fn.input.vis = "Restricted"
    /\ emitted[1].val[1].vis = "pub(crate)"

\* ---------------------------------------------------------------- C10

\* C10 (last pair wins): when every `before`/`after` string parses as a path,
\* each slot holds the path of the last pair carrying its name and is absent
\* when no pair carries it; pairs with another name raise no error and change
\* neither slot.
LastPairWins ==
    (Expanded /\ ~MalformedHook(Fn.args)
        /\ ~HasReceiver(Fn.input.inputs) /\ ~HasPattern(Fn.input.inputs))
    => /\ emitted[1].status = "ok"
       /\ SlotBefore(emitted[1].val[1]) =
             IF Configured(Fn.args, "before")
             THEN ParsePath(LastString(Fn.args, "before")) ELSE <<>>
       /\ SlotAfter(emitted[1].val[1]) =
             IF Configured(Fn.args, "after")
             THEN ParsePath(LastString(Fn.args, "after")) ELSE <<>>

LastPairWinsWitness ==
    /\ Expanded
    /\ emitted[1].status = "ok"
    /\ Len(Fn.args) = 2
    /\ Fn.args[1].name = "before"
    /\ Fn.args[2].name = "before"
    /\ Fn.args[1].lit = "Str"
    /\ Fn.args[2].lit = "Str"
    /\ Fn.args[1].value # Fn.args[2].value
    /\ SlotBefore(emitted[1].val[1]) = ParsePath(Fn.args[2].value)
    /\ SlotAfter(emitted[1].val[1]) = <<>>

====
